---- MODULE Spec2Model ----
(***************************************************************************)
(* Model of familylink/client.py: the credential resolution performed by   *)
(* FamilyLink.__init__, the SAPISIDHASH derivation and FamilyLink._get.    *)
(*                                                                         *)
(* Python strings that the code strips, compares by prefix or scans are    *)
(* sequences of one-character strings.  The file system is revealed        *)
(* lazily: a profile file gets its state at the moment the constructor     *)
(* looks at it (the code looks at each file at most once).                 *)
(*                                                                         *)
(* loc holds the locals of the constructor and its position.  twin is a    *)
(* second run of the constructor on the same context, fed the same         *)
(* observations except that an unparsable cookies.txt is shown to it as    *)
(* no cookies.txt at all; comparing loc and twin states the equivalence    *)
(* of the two contexts.  self is the client object, call the _get call in  *)
(* progress.                                                               *)
(***************************************************************************)
EXTENDS Integers, Sequences, FiniteSets, TLC

VARIABLES env, cwd, cookie_file_path_arg, browser_cookie3, path_files,
          profile_files, loc, twin, self, call

vars == <<env, cwd, cookie_file_path_arg, browser_cookie3, path_files,
          profile_files, loc, twin, self, call>>

(* ------------------------------ bounds --------------------------------- *)
MaxJarLen == 2
MaxClock == 1

(* --------------------------- string helpers ---------------------------- *)
None == <<"<None>">>
Empty == <<>>

IsSpace(c) == c \in {" ", "\n"}

RECURSIVE LStrip(_)
LStrip(s) == IF s # <<>> /\ IsSpace(Head(s)) THEN LStrip(Tail(s)) ELSE s

RECURSIVE RStrip(_)
RStrip(s) ==
    IF s # <<>> /\ IsSpace(s[Len(s)]) THEN RStrip(SubSeq(s, 1, Len(s) - 1)) ELSE s

\* str.strip()
Strip(s) == RStrip(LStrip(s))

\* str.startswith(prefix)
StartsWith(s, prefix) ==
    /\ Len(prefix) <= Len(s)
    /\ SubSeq(s, 1, Len(prefix)) = prefix

\* Python truthiness of an Optional[str]
Falsy(s) == s = None \/ s = Empty

\* x or y over strings
Or(x, y) == IF Falsy(x) THEN y ELSE x

\* str.lower() on the browser names used here
Lower(b) ==
    CASE b = "Chrome" -> "chrome"
      [] b = "Firefox" -> "firefox"
      [] OTHER -> b

(* ------------------------------ inputs --------------------------------- *)
PathX == <<"/", "x">>
PathY == <<"/", "y">>
ExplicitPaths == {PathX, PathY}

ProfilesDirs == {Empty, <<"/", "p">>, <<"/", "p", "/">>}
Cwds == {<<"/", "p", "/", "a">>, <<"/", "p", "q", "/", "a">>, <<"/", "q">>}
EnvSapisids == {Empty, <<" ">>, <<"e">>, <<" ", "e", "\n">>}
EnvAuthusers == {Empty, <<"1">>}
EnvBrowsers == {"", "Chrome"}
EnvCookieFiles == {Empty, PathX}
ArgCookieFiles == {None, PathY}
PathKinds == {"absent", "dir", "file"}

\* a file the constructor has not looked at (yet)
Unknown == [kind |-> "unknown", text |-> Empty]
AuthuserFiles == {[kind |-> "absent", text |-> Empty],
                  [kind |-> "file", text |-> <<"2", "\n">>]}
SapisidTxtFiles == {[kind |-> "absent", text |-> Empty],
                    [kind |-> "file", text |-> <<"\n">>],
                    [kind |-> "file", text |-> <<"s", "\n">>]}
SapisidFiles == {[kind |-> "absent", text |-> Empty],
                 [kind |-> "file", text |-> <<"t">>]}

\* entries of a cookie collection, in iteration order
CookieEntries ==
    {[name |-> "SAPISID", domain |-> ".google.com", value |-> <<"c">>],
     [name |-> "SAPISID", domain |-> ".google.com", value |-> Empty],
     [name |-> "SAPISID", domain |-> "google.com", value |-> <<"x">>],
     [name |-> "NID", domain |-> ".google.com", value |-> <<"y">>]}

\* a jar holds a cookie once: it is keyed by domain, path and name
Jars ==
    UNION {{cs \in [1..n -> CookieEntries] : \A i, j \in 1..n : cs[i] = cs[j] => i = j} :
              n \in 0..MaxJarLen}

\* Optional[CookieJar]
NoJar == [present |-> FALSE, cookies |-> <<>>]
Jar(cs) == [present |-> TRUE, cookies |-> cs]

\* "not cookies_jar": None, or a CookieJar whose __len__ is 0
NotJar(j) == ~j.present \/ Len(j.cookies) = 0

\* what MozillaCookieJar.load does with a file: raise LoadError or fill the jar
Malformed == [ok |-> FALSE, cookies |-> <<>>]
Loaded(cs) == [ok |-> TRUE, cookies |-> cs]
LoadResults == {Malformed} \cup {Loaded(cs) : cs \in Jars}

\* state of cookies.txt in the working directory
CookiesTxtFiles ==
    {[kind |-> "absent", load |-> Malformed], [kind |-> "dir", load |-> Malformed]}
        \cup {[kind |-> "file", load |-> l] : l \in LoadResults}

UnknownCookies == [kind |-> "unknown", load |-> Malformed]

\* what the call of browser_cookie3.<browser>() does: raise or return a jar
BrowserResults == LoadResults

Statuses == {200, 204, 301, 404, 500}

ORIGIN == "https://familylink.google.com"

(* --------------------------- constructor ------------------------------- *)
Fail(s, e) == [s EXCEPT !.pc = "failed", !.error = e]

\* lines 69-77: browser choice and operating mode
Context(s) ==
    IF s.pc # "context" THEN s ELSE
    LET env_browser == env.FAMILYLINK_BROWSER
        browser == Lower(IF env_browser # "" THEN env_browser
                         ELSE IF s.browser # "" THEN s.browser ELSE "chrome")
        profiles_dir == Strip(env.FAMILYLINK_PROFILES_DIR)
    IN [s EXCEPT !.pc = "authuser",
                 !.browser = browser,
                 !.profiles_dir = profiles_dir,
                 !.in_profiles_dir = profiles_dir # Empty /\ StartsWith(cwd, profiles_dir)]

\* does the step at lines 80-86 look at authuser.txt
ReadsAuthuser(s) == s.in_profiles_dir /\ Strip(env.FAMILYLINK_AUTHUSER) = Empty

\* lines 80-86: account index
Authuser(s, f) ==
    IF s.pc # "authuser" THEN s ELSE
    LET a0 == Strip(env.FAMILYLINK_AUTHUSER)
        a1 == IF ReadsAuthuser(s) /\ f.kind = "file" THEN Strip(f.text) ELSE a0
        a2 == IF a1 = Empty THEN <<"0">> ELSE a1
    IN [s EXCEPT !.pc = "sources", !.authuser = a2]

\* lines 89-95: token from the environment, explicit cookie file path
Sources(s) ==
    IF s.pc # "sources" THEN s ELSE
    LET env_cookie_file == Strip(env.FAMILYLINK_COOKIE_FILE)
    IN [s EXCEPT !.pc = "profile_sapisid",
                 !.sapisid = Or(Strip(env.FAMILYLINK_SAPISID), None),
                 !.cookies_jar = NoJar,
                 !.cookie_file_path = IF env_cookie_file # Empty THEN env_cookie_file
                                      ELSE cookie_file_path_arg]

\* value a raw token file yields at lines 102-105 (Empty: keep looking)
FileValue(f) == IF f.kind = "file" THEN Strip(f.text) ELSE Empty

\* does the step at lines 98-106 look at the token files
ReadsSapisidFiles(s) == s.in_profiles_dir /\ Falsy(s.sapisid)

ProfileSapisid_FirstNameOnly(s, f1, f2) ==
    IF s.pc # "profile_sapisid" THEN s ELSE
    LET v1 == FileValue(f1)
    IN [s EXCEPT !.pc = "cookies_txt",
                 !.sapisid = IF ReadsSapisidFiles(s) /\ v1 # Empty THEN v1 ELSE s.sapisid]

\* lines 98-106: sapisid.txt, then SAPISID
ProfileSapisid(s, f1, f2) ==
    IF s.pc # "profile_sapisid" THEN s ELSE
    LET v1 == FileValue(f1)
        v2 == FileValue(f2)
        val == IF v1 # Empty THEN v1 ELSE v2
    IN [s EXCEPT !.pc = "cookies_txt",
                 !.sapisid = IF ReadsSapisidFiles(s) /\ val # Empty THEN val ELSE s.sapisid]

\* does the step at lines 109-117 look at cookies.txt
ReadsCookiesTxt(s) == s.in_profiles_dir /\ ~s.cookies_jar.present

ProfileCookies_Fatal(s, f) ==
    IF s.pc # "cookies_txt" THEN s ELSE
    IF ReadsCookiesTxt(s) /\ f.kind = "file" /\ ~f.load.ok
    THEN Fail(s, "LoadError")
    ELSE [s EXCEPT !.pc = "cookie_file",
                   !.cookies_jar = IF ReadsCookiesTxt(s) /\ f.kind = "file"
                                   THEN Jar(f.load.cookies) ELSE s.cookies_jar]

\* lines 109-117: cookies.txt of the profile; a load error is logged only
ProfileCookies(s, f) ==
    IF s.pc # "cookies_txt" THEN s ELSE
    [s EXCEPT !.pc = "cookie_file",
              !.cookies_jar = IF ReadsCookiesTxt(s) /\ f.kind = "file" /\ f.load.ok
                              THEN Jar(f.load.cookies) ELSE s.cookies_jar]

\* does the step at lines 120-130 look at the explicit cookie file
ReadsCookieFile(s) == NotJar(s.cookies_jar) /\ s.cookie_file_path # None

ExplicitCookieFile_SkipMissing(s, kind, load) ==
    IF s.pc # "cookie_file" THEN s ELSE
    IF ~ReadsCookieFile(s) \/ kind = "absent" THEN [s EXCEPT !.pc = "browser"]
    ELSE IF kind # "file" THEN Fail(s, "ValueError: Cookie file is not a file")
    ELSE [s EXCEPT !.pc = "browser",
                   !.cookies_jar = IF load.ok THEN Jar(load.cookies) ELSE s.cookies_jar]

\* lines 120-130: explicit cookie file (kind: what the path names)
ExplicitCookieFile(s, kind, load) ==
    IF s.pc # "cookie_file" THEN s ELSE
    IF ~ReadsCookieFile(s) THEN [s EXCEPT !.pc = "browser"]
    ELSE IF kind = "absent" THEN Fail(s, "ValueError: Cookie file not found")
    ELSE IF kind # "file" THEN Fail(s, "ValueError: Cookie file is not a file")
    ELSE [s EXCEPT !.pc = "browser",
                   !.cookies_jar = IF load.ok THEN Jar(load.cookies) ELSE s.cookies_jar]

LastResort_IgnoresJar(s) == Falsy(s.sapisid)

\* line 133: neither a token nor a usable cookie jar so far
LastResort(s) == Falsy(s.sapisid) /\ NotJar(s.cookies_jar)

BrowserForbidden_Never(s) == FALSE

\* line 134: inside the profiles directory the browser is off limits
BrowserForbidden(s) == s.in_profiles_dir

\* does the step at lines 133-144 get as far as line 139
NeedsBrowser(s) == LastResort(s) /\ ~BrowserForbidden(s)

\* lines 133-144: last resort, the local browser (b3: the import at lines
\* 18-21 succeeded; res: what the call of browser_cookie3 does)
BrowserFallback(s, b3, res) ==
    IF s.pc # "browser" THEN s ELSE
    IF ~LastResort(s) THEN [s EXCEPT !.pc = "extract"]
    ELSE IF BrowserForbidden(s) THEN Fail(s, "RuntimeError: browser access is disabled")
    ELSE IF ~b3 THEN Fail(s, "RuntimeError: browser_cookie3 not available")
    ELSE IF ~res.ok
         THEN [Fail(s, "BrowserCookieError") EXCEPT !.browser_queried = TRUE,
                    !.cookie_kwargs = s.cookie_file_path]
    ELSE [s EXCEPT !.pc = "extract",
                   !.browser_queried = TRUE,
                   !.cookie_kwargs = s.cookie_file_path,
                   !.cookies_jar = Jar(res.cookies)]

RECURSIVE FirstSapisid_AnyDomain(_)
FirstSapisid_AnyDomain(cs) ==
    IF cs = <<>> THEN None
    ELSE IF Head(cs).name = "SAPISID" THEN Head(cs).value
         ELSE FirstSapisid_AnyDomain(Tail(cs))

\* lines 148-151: value of the first SAPISID cookie of .google.com, or None
RECURSIVE FirstSapisid(_)
FirstSapisid(cs) ==
    IF cs = <<>> THEN None
    ELSE IF Head(cs).name = "SAPISID" /\ Head(cs).domain = ".google.com"
         THEN Head(cs).value
         ELSE FirstSapisid(Tail(cs))

ExtractSapisid_AlwaysScan(s) ==
    IF s.pc # "extract" THEN s ELSE
    LET found == IF s.cookies_jar.present
                 THEN FirstSapisid(s.cookies_jar.cookies) ELSE None
        sapisid == IF found # None THEN found ELSE s.sapisid
    IN IF Falsy(sapisid)
       THEN [Fail(s, "ValueError: Could not find SAPISID") EXCEPT !.sapisid = sapisid]
       ELSE [s EXCEPT !.pc = "headers", !.sapisid = sapisid]

\* lines 147-159: token from the cookie jar, or give up
ExtractSapisid(s) ==
    IF s.pc # "extract" THEN s ELSE
    LET found == IF Falsy(s.sapisid) /\ s.cookies_jar.present
                 THEN FirstSapisid(s.cookies_jar.cookies) ELSE None
        sapisid == IF found # None THEN found ELSE s.sapisid
    IN IF Falsy(sapisid)
       THEN [Fail(s, "ValueError: Could not find SAPISID") EXCEPT !.sapisid = sapisid]
       ELSE [s EXCEPT !.pc = "headers", !.sapisid = sapisid]

_generate_sapisidhash_Space(sapisid, origin, ts) ==
    LET digest == [sha1 |-> <<ToString(ts), " ">> \o sapisid \o <<" ", origin>>]
    IN [ts |-> ToString(ts), sep |-> " ", digest |-> digest]

\* lines 28-43: ts is the clock in milliseconds; the SHA-1 digest is kept
\* symbolic as the message it is taken of
_generate_sapisidhash(sapisid, origin, ts) ==
    LET digest == [sha1 |-> <<ToString(ts), " ">> \o sapisid \o <<" ", origin>>]
    IN [ts |-> ToString(ts), sep |-> "_", digest |-> digest]

\* lines 161-186 on the locals
BuildSession(s) == IF s.pc # "headers" THEN s ELSE [s EXCEPT !.pc = "ready"]

\* lines 174-186: the fields of the client (t: clock at line 181)
Client(s, t) ==
    [account_id |-> "acct",
     _headers |-> [Origin |-> "https://familylink.google.com",
                   Authorization |->
                       [scheme |-> "SAPISIDHASH ",
                        value |-> _generate_sapisidhash(s.sapisid,
                                      "https://familylink.google.com", t)]],
     _cookies |-> s.cookies_jar,
     _session |-> TRUE]

NoClient ==
    [account_id |-> "acct",
     _headers |-> [Origin |-> "",
                   Authorization |->
                       [scheme |-> "",
                        value |-> [ts |-> "", sep |-> "",
                                   digest |-> [sha1 |-> <<>>]]]],
     _cookies |-> NoJar,
     _session |-> FALSE]

(* ------------------------------ states --------------------------------- *)
Locals ==
    [pc |-> "context", error |-> "", browser |-> "firefox", profiles_dir |-> Empty,
     in_profiles_dir |-> FALSE, authuser |-> Empty, sapisid |-> None,
     cookies_jar |-> NoJar, cookie_file_path |-> None, cookie_kwargs |-> None,
     browser_queried |-> FALSE]

Idle == [pc |-> "idle", status |-> 0, requests |-> 0]

Init ==
    /\ env \in [FAMILYLINK_BROWSER : EnvBrowsers,
                FAMILYLINK_PROFILES_DIR : ProfilesDirs,
                FAMILYLINK_AUTHUSER : EnvAuthusers,
                FAMILYLINK_SAPISID : EnvSapisids,
                FAMILYLINK_COOKIE_FILE : EnvCookieFiles]
    \* the two settings no later step reads are varied together
    /\ env.FAMILYLINK_BROWSER = "" <=> env.FAMILYLINK_AUTHUSER = Empty
    /\ cwd \in Cwds
    /\ cookie_file_path_arg \in ArgCookieFiles
    /\ browser_cookie3 = "unread"
    /\ path_files \in [ExplicitPaths -> PathKinds]
    \* a path nobody supplied is not part of the context
    /\ env.FAMILYLINK_COOKIE_FILE = Empty => path_files[PathX] = "absent"
    /\ cookie_file_path_arg = None => path_files[PathY] = "absent"
    /\ profile_files = [authuser_txt |-> Unknown, sapisid_txt |-> Unknown,
                        SAPISID |-> Unknown, cookies_txt |-> UnknownCookies]
    /\ loc = Locals
    /\ twin = Locals
    /\ self = NoClient
    /\ call = Idle

(* ------------------------------ actions -------------------------------- *)
Environment == <<env, cwd, cookie_file_path_arg, path_files>>

DoContext ==
    /\ loc.pc = "context"
    /\ loc' = Context(loc)
    /\ twin' = Context(twin)
    /\ UNCHANGED <<Environment, browser_cookie3, profile_files, self, call>>

DoAuthuser ==
    /\ loc.pc = "authuser"
    /\ \E f \in IF ReadsAuthuser(loc) THEN AuthuserFiles ELSE {Unknown} :
          /\ loc' = Authuser(loc, f)
          /\ twin' = Authuser(twin, f)
          /\ profile_files' = [profile_files EXCEPT !.authuser_txt = f]
    /\ UNCHANGED <<Environment, browser_cookie3, self, call>>

DoSources ==
    /\ loc.pc = "sources"
    /\ loc' = Sources(loc)
    /\ twin' = Sources(twin)
    /\ UNCHANGED <<Environment, browser_cookie3, profile_files, self, call>>

DoProfileSapisid ==
    /\ loc.pc = "profile_sapisid"
    /\ \E f1 \in IF ReadsSapisidFiles(loc) THEN SapisidTxtFiles ELSE {Unknown} :
       \E f2 \in IF ReadsSapisidFiles(loc) /\ FileValue(f1) = Empty
                  THEN SapisidFiles ELSE {Unknown} :
          /\ loc' = ProfileSapisid(loc, f1, f2)
          /\ twin' = ProfileSapisid(twin, f1, f2)
          /\ profile_files' = [profile_files EXCEPT !.sapisid_txt = f1, !.SAPISID = f2]
    /\ UNCHANGED <<Environment, browser_cookie3, self, call>>

\* the same context with the unparsable cookies.txt taken away
WithoutMalformed(f) ==
    IF f.kind = "file" /\ ~f.load.ok THEN [kind |-> "absent", load |-> Malformed] ELSE f

DoProfileCookies ==
    /\ loc.pc = "cookies_txt"
    /\ \E f \in IF ReadsCookiesTxt(loc) THEN CookiesTxtFiles ELSE {UnknownCookies} :
          /\ loc' = ProfileCookies(loc, f)
          /\ twin' = ProfileCookies(twin, WithoutMalformed(f))
          /\ profile_files' = [profile_files EXCEPT !.cookies_txt = f]
    /\ UNCHANGED <<Environment, browser_cookie3, self, call>>

\* what the path in effect names
KindOf(p) == IF p \in ExplicitPaths THEN path_files[p] ELSE "absent"

DoExplicitCookieFile ==
    /\ loc.pc = "cookie_file"
    /\ \E l \in IF ReadsCookieFile(loc) /\ KindOf(loc.cookie_file_path) = "file"
                 THEN LoadResults ELSE {Malformed} :
          /\ loc' = ExplicitCookieFile(loc, KindOf(loc.cookie_file_path), l)
          /\ twin' = ExplicitCookieFile(twin, KindOf(twin.cookie_file_path), l)
    /\ UNCHANGED <<Environment, browser_cookie3, profile_files, self, call>>

DoBrowserFallback ==
    /\ loc.pc = "browser"
    /\ \E b3 \in IF NeedsBrowser(loc) THEN BOOLEAN ELSE {FALSE} :
       \E r \in IF NeedsBrowser(loc) /\ b3 THEN BrowserResults ELSE {Malformed} :
          /\ loc' = BrowserFallback(loc, b3, r)
          /\ twin' = BrowserFallback(twin, b3, r)
          /\ browser_cookie3' = IF ~NeedsBrowser(loc) THEN browser_cookie3
                                ELSE IF b3 THEN "module" ELSE "None"
    /\ UNCHANGED <<Environment, profile_files, self, call>>

DoExtractSapisid ==
    /\ loc.pc = "extract"
    /\ loc' = ExtractSapisid(loc)
    /\ twin' = ExtractSapisid(twin)
    /\ UNCHANGED <<Environment, browser_cookie3, profile_files, self, call>>

DoBuildSession ==
    /\ loc.pc = "headers"
    /\ \E t1 \in 0..MaxClock : \E t2 \in t1..MaxClock :
          /\ loc' = BuildSession(loc)
          /\ self' = Client(loc, t2)
    /\ twin' = BuildSession(twin)
    /\ UNCHANGED <<Environment, browser_cookie3, profile_files, call>>

(* -------------------------------- _get --------------------------------- *)
\* httpx.Response.raise_for_status: is_success is 200..299
IsSuccess(status) == status >= 200 /\ status <= 299

RaiseForStatus_Retry(c) ==
    [c EXCEPT !.pc = IF IsSuccess(c.status) THEN "returned"
                     ELSE IF c.status >= 500 /\ c.requests < 2 THEN "send"
                     ELSE "raised"]

\* line 192-193 (c: the call in progress, holding the response)
RaiseForStatus(c) ==
    [c EXCEPT !.pc = IF IsSuccess(c.status) THEN "returned" ELSE "raised"]

\* line 189-190: a caller enters _get
GetEnter ==
    /\ loc.pc = "ready" /\ self._session
    /\ call.pc \in {"idle", "returned", "raised"}
    /\ call' = [pc |-> "send", status |-> 0, requests |-> 0]
    /\ UNCHANGED <<Environment, browser_cookie3, profile_files, loc, twin, self>>

\* line 191: one request goes out, the server answers
GetSend ==
    /\ call.pc = "send"
    /\ \E status \in Statuses :
          call' = [pc |-> "check", status |-> status, requests |-> call.requests + 1]
    /\ UNCHANGED <<Environment, browser_cookie3, profile_files, loc, twin, self>>

GetCheck ==
    /\ call.pc = "check"
    /\ call' = RaiseForStatus(call)
    /\ UNCHANGED <<Environment, browser_cookie3, profile_files, loc, twin, self>>

Next ==
    \/ DoContext
    \/ DoAuthuser
    \/ DoSources
    \/ DoProfileSapisid
    \/ DoProfileCookies
    \/ DoExplicitCookieFile
    \/ DoBrowserFallback
    \/ DoExtractSapisid
    \/ DoBuildSession

Spec == Init /\ [][Next]_vars

(* --------------------- the client after construction ------------------- *)
\* a client built in open mode from a token of the environment: the
\* constructor's steps applied one after the other (l: what loading the
\* explicit cookie file does, t: the clock at line 181)
Constructed(l, t) ==
    \E s1 \in {Context(Locals)} :
    \E s2 \in {Authuser(s1, Unknown)} :
    \E s3 \in {Sources(s2)} :
    \E s4 \in {ProfileSapisid(s3, Unknown, Unknown)} :
    \E s5 \in {ProfileCookies(s4, UnknownCookies)} :
    \E s6 \in {ExplicitCookieFile(s5, KindOf(s5.cookie_file_path), l)} :
    \E s7 \in {BrowserFallback(s6, FALSE, Malformed)} :
    \E s8 \in {ExtractSapisid(s7)} :
        /\ s8.pc = "headers"
        /\ loc = BuildSession(s8)
        /\ self = Client(s8, t)

InitGet ==
    /\ env \in [FAMILYLINK_BROWSER : EnvBrowsers,
                FAMILYLINK_PROFILES_DIR : {Empty},
                FAMILYLINK_AUTHUSER : EnvAuthusers,
                FAMILYLINK_SAPISID : {<<"e">>, <<" ", "e", "\n">>},
                FAMILYLINK_COOKIE_FILE : EnvCookieFiles]
    /\ env.FAMILYLINK_BROWSER = "" <=> env.FAMILYLINK_AUTHUSER = Empty
    /\ cwd \in Cwds
    /\ cookie_file_path_arg = None
    /\ browser_cookie3 = "unread"
    /\ path_files = [p \in ExplicitPaths |->
                        IF p = env.FAMILYLINK_COOKIE_FILE THEN "file" ELSE "absent"]
    /\ profile_files = [authuser_txt |-> Unknown, sapisid_txt |-> Unknown,
                        SAPISID |-> Unknown, cookies_txt |-> UnknownCookies]
    /\ \E l \in IF env.FAMILYLINK_COOKIE_FILE = Empty THEN {Malformed} ELSE LoadResults :
       \E t \in 0..MaxClock : Constructed(l, t)
    /\ twin = loc
    /\ call = Idle

NextGet ==
    \/ GetEnter
    \/ GetSend
    \/ GetCheck

SpecGet == InitGet /\ [][NextGet]_vars

(* ------------------------- vocabulary of the claims -------------------- *)
Terminal == loc.pc \in {"ready", "failed"}

\* the constructor is past the step at lines 120-130
PastCookieFile == loc.pc \in {"browser", "extract", "headers", "ready", "failed"}

\* the constructor is past the step at lines 89-95
PastSources == loc.pc \notin {"context", "authuser", "sources"}

EnvToken == Strip(env.FAMILYLINK_SAPISID)

EnvCookieFile == Strip(env.FAMILYLINK_COOKIE_FILE)

\* the explicit cookie file path in effect: the environment overrides the argument
EffectivePath == IF EnvCookieFile # Empty THEN EnvCookieFile ELSE cookie_file_path_arg

ExplicitSupplied == EnvCookieFile # Empty \/ cookie_file_path_arg # None

\* root without its trailing separator
Trimmed(root) ==
    IF root # <<>> /\ root[Len(root)] = "/" THEN SubSeq(root, 1, Len(root) - 1) ELSE root

\* path lies below the directory root
IsDescendant(path, root) ==
    /\ Len(path) > Len(Trimmed(root))
    /\ SubSeq(path, 1, Len(Trimmed(root))) = Trimmed(root)
    /\ path[Len(Trimmed(root)) + 1] = "/"

\* restricted mode as the specification defines it
SpecRestricted ==
    /\ Strip(env.FAMILYLINK_PROFILES_DIR) # Empty
    /\ IsDescendant(cwd, Strip(env.FAMILYLINK_PROFILES_DIR))

\* content of a raw token file as seen by the constructor
SeenValue(f) == IF f.kind = "file" THEN Strip(f.text) ELSE Empty

\* the token the environment and the profile files give, Empty if none
EarlierToken ==
    IF EnvToken # Empty THEN EnvToken
    ELSE IF loc.in_profiles_dir /\ SeenValue(profile_files.sapisid_txt) # Empty
         THEN SeenValue(profile_files.sapisid_txt)
    ELSE IF loc.in_profiles_dir /\ SeenValue(profile_files.SAPISID) # Empty
         THEN SeenValue(profile_files.SAPISID)
    ELSE Empty

\* positions of the SAPISID cookies of .google.com
GoodIdx(cs) ==
    {i \in 1..Len(cs) : cs[i].name = "SAPISID" /\ cs[i].domain = ".google.com"}

FirstGoodValue(cs) ==
    cs[CHOOSE i \in GoodIdx(cs) : \A j \in GoodIdx(cs) : i <= j].value

\* the message the digest of the Authorization header was taken of
SignedMessage == self._headers.Authorization.value.digest.sha1

CookiesTxtLoaded ==
    /\ profile_files.cookies_txt.kind = "file"
    /\ profile_files.cookies_txt.load.ok
    /\ Len(profile_files.cookies_txt.load.cookies) > 0

(* -------------------------------- C1 ----------------------------------- *)
\* C1 as stated: a non-empty FAMILYLINK_SAPISID makes construction succeed
\* with exactly that value as token, whatever the files and cookies are.
C1_Original ==
    (env.FAMILYLINK_SAPISID # Empty /\ Terminal)
        => (loc.pc = "ready" /\ loc.sapisid = env.FAMILYLINK_SAPISID)

\* C1 amended: when FAMILYLINK_SAPISID is non-empty after stripping
\* whitespace, the token is that stripped value from line 89 on, it is the
\* token the header is signed with, and construction fails only at the
\* explicit cookie file (path in effect missing or not a regular file).
C1_EnvTokenWins ==
    (EnvToken # Empty /\ PastSources) =>
        /\ loc.sapisid = EnvToken
        /\ loc.pc = "ready" =>
              SubSeq(SignedMessage, 3, 2 + Len(EnvToken)) = EnvToken
        /\ loc.pc = "failed" =>
              /\ loc.error \in {"ValueError: Cookie file not found",
                                "ValueError: Cookie file is not a file"}
              /\ EffectivePath # None
              /\ KindOf(EffectivePath) # "file"

C1_Witness ==
    /\ loc.pc = "ready"
    /\ env.FAMILYLINK_SAPISID = <<" ", "e", "\n">>
    /\ loc.in_profiles_dir
    /\ loc.cookies_jar.present
    /\ GoodIdx(loc.cookies_jar.cookies) # {}
    /\ loc.sapisid = <<"e">>

(* -------------------------------- C2 ----------------------------------- *)
\* C2: in restricted mode the browser is never queried (browser_cookie3 is
\* not even looked at); the constructor gets past lines 133-144 only with a
\* token or a non-empty cookie jar, and without token and cookie source it
\* ends in an error.
C2_NoBrowserInRestricted ==
    (SpecRestricted \/ loc.in_profiles_dir) =>
        /\ ~loc.browser_queried
        /\ browser_cookie3 = "unread"
        /\ loc.pc \in {"extract", "headers", "ready"} =>
              (~Falsy(loc.sapisid) \/ Len(loc.cookies_jar.cookies) > 0)
        /\ (Terminal /\ EarlierToken = Empty /\ ~loc.cookies_jar.present) =>
              /\ loc.pc = "failed"
              /\ loc.error \in {"RuntimeError: browser access is disabled",
                                "ValueError: Cookie file not found",
                                "ValueError: Cookie file is not a file"}

C2_Witness ==
    /\ SpecRestricted
    /\ loc.in_profiles_dir
    /\ loc.pc = "failed"
    /\ loc.error = "RuntimeError: browser access is disabled"
    /\ ~ExplicitSupplied

(* -------------------------------- C3 ----------------------------------- *)
\* C3 as stated: an explicit cookie file path (the one in effect, from the
\* environment or the argument) that names no file always ends construction
\* in a ValueError, before the session exists.
C3_Original ==
    (Terminal /\ EffectivePath # None /\ KindOf(EffectivePath) = "absent")
        => /\ loc.pc = "failed"
           /\ loc.error \in {"ValueError: Cookie file not found",
                             "ValueError: Cookie file is not a file",
                             "ValueError: Could not find SAPISID"}
           /\ ~self._session

\* C3 amended: when the explicit path in effect (the environment overrides
\* the argument) names no file and no non-empty cookies.txt was loaded in
\* the profile directory, construction ends at lines 120-122 in the
\* ValueError, with no session created and no request sent.
C3_MissingCookieFileFails ==
    (PastCookieFile /\ EffectivePath # None /\ KindOf(EffectivePath) = "absent"
        /\ ~CookiesTxtLoaded)
        => /\ loc.pc = "failed"
           /\ loc.error = "ValueError: Cookie file not found"
           /\ ~self._session
           /\ call = Idle

C3_Witness ==
    /\ loc.pc = "failed"
    /\ loc.error = "ValueError: Cookie file not found"
    /\ EnvToken # Empty
    /\ loc.in_profiles_dir
    /\ profile_files.cookies_txt.kind = "file"

(* -------------------------------- C4 ----------------------------------- *)
\* C4: a constructed client has a non-empty token, the value of the first
\* of environment variable, sapisid.txt, SAPISID (both restricted mode
\* only) and first SAPISID cookie that is non-empty; once an earlier source
\* gave a value no later step changes it.
C4_FirstSourceWins ==
    /\ loc.pc = "ready" =>
          /\ ~Falsy(loc.sapisid)
          /\ loc.sapisid = IF EarlierToken # Empty THEN EarlierToken
                           ELSE FirstGoodValue(loc.cookies_jar.cookies)
          /\ SignedMessage = <<SignedMessage[1], " ">> \o loc.sapisid \o <<" ", ORIGIN>>
    /\ (loc.pc \in {"cookies_txt", "cookie_file", "browser", "extract", "headers",
                    "ready", "failed"} /\ EarlierToken # Empty) =>
          loc.sapisid = EarlierToken

C4_Witness ==
    /\ loc.pc = "ready"
    /\ EnvToken = Empty
    /\ profile_files.sapisid_txt.kind = "file"
    /\ profile_files.SAPISID.kind = "file"
    /\ loc.sapisid = <<"t">>
    /\ GoodIdx(loc.cookies_jar.cookies) # {}

(* -------------------------------- C5 ----------------------------------- *)
\* C5 as stated: without a token from environment or profile files, a
\* cookie source with a SAPISID entry of .google.com gives the value of the
\* first such entry as token; without such an entry construction fails.
C5_Original ==
    (Terminal /\ EarlierToken = Empty /\ loc.cookies_jar.present) =>
        IF GoodIdx(loc.cookies_jar.cookies) # {}
        THEN /\ loc.pc = "ready"
             /\ loc.sapisid = FirstGoodValue(loc.cookies_jar.cookies)
        ELSE loc.pc = "failed"

\* C5 amended: the token is the value of the first SAPISID entry of
\* .google.com provided that value is non-empty; when that value is empty
\* or there is no such entry construction fails (with the "Could not find
\* SAPISID" ValueError whenever the collection holds a cookie).
C5_FirstSapisidCookie ==
    (Terminal /\ EarlierToken = Empty /\ loc.cookies_jar.present) =>
        IF /\ GoodIdx(loc.cookies_jar.cookies) # {}
           /\ FirstGoodValue(loc.cookies_jar.cookies) # Empty
        THEN /\ loc.pc = "ready"
             /\ loc.sapisid = FirstGoodValue(loc.cookies_jar.cookies)
        ELSE /\ loc.pc = "failed"
             /\ Len(loc.cookies_jar.cookies) > 0 =>
                   loc.error = "ValueError: Could not find SAPISID"

C5_Witness ==
    /\ loc.pc = "ready"
    /\ EarlierToken = Empty
    /\ Len(loc.cookies_jar.cookies) = 2
    /\ loc.cookies_jar.cookies[1].name = "SAPISID"
    /\ loc.cookies_jar.cookies[1].domain = "google.com"
    /\ loc.sapisid = <<"c">>

(* -------------------------------- C6 ----------------------------------- *)
\* C6: a finished call of _get has sent exactly one request, has raised
\* exactly when the status is not 2xx and has returned otherwise; no call
\* in progress has sent more than one request.
C6_OneRequestPerGet ==
    /\ call.requests <= 1
    /\ call.pc \in {"returned", "raised"} =>
          /\ call.requests = 1
          /\ call.pc = "raised" <=> ~(call.status >= 200 /\ call.status <= 299)

C6_Witness ==
    /\ call.pc = "raised"
    /\ call.status = 500
    /\ call.requests = 1

C8_Original ==
    loc.pc # "context" => (loc.in_profiles_dir <=> SpecRestricted)

(* -------------------------------- C9 ----------------------------------- *)
\* C9 as stated: the browser is queried only in open mode, with no explicit
\* cookie file path supplied and no token resolved.
C9_Original ==
    loc.browser_queried =>
        /\ ~loc.in_profiles_dir
        /\ ~ExplicitSupplied
        /\ EnvToken = Empty

\* C9 amended: the browser is queried only at lines 139-144, in open mode,
\* with the token unresolved and no non-empty cookie jar loaded (an explicit
\* cookie file that failed to parse or held no cookie does not prevent it).
C9_BrowserOnlyAsLastResort ==
    [][(~loc.browser_queried /\ loc'.browser_queried) =>
          /\ loc.pc = "browser"
          /\ ~loc.in_profiles_dir
          /\ Falsy(loc.sapisid)
          /\ Len(loc.cookies_jar.cookies) = 0]_vars

C9_Witness ==
    /\ loc.browser_queried
    /\ loc.cookie_kwargs # None
    /\ loc.pc = "ready"

(* -------------------------------- C10 ---------------------------------- *)
\* C10: in restricted mode a run that met an unparsable cookies.txt is, at
\* every step and at its end, in the state of the run that met the same
\* context without a cookies.txt (same position, error, token, cookie jar).
C10_MalformedAsAbsent ==
    (loc.in_profiles_dir /\ profile_files.cookies_txt.kind = "file"
        /\ ~profile_files.cookies_txt.load.ok)
        => loc = twin

C10_Witness ==
    /\ loc.in_profiles_dir
    /\ profile_files.cookies_txt.kind = "file"
    /\ ~profile_files.cookies_txt.load.ok
    /\ loc.pc = "ready"
    /\ loc.cookies_jar.present
    /\ EnvToken = Empty

====
